---------------------------- MODULE Spec2Model ----------------------------
(***************************************************************************)
(* Global-styles dimensions panel (padding / margin / block gap) and       *)
(* border panel: the value transforms between the stored style value and   *)
(* the four-edge editing surface, and the handlers that write to the       *)
(* style store.                                                            *)
(*                                                                         *)
(* JavaScript values are tagged records: undefined, a string, an object    *)
(* (a function from its own keys to edge values), an array (a sequence).   *)
(* An edge value inside an object is a string, "undefined" standing for    *)
(* a key that is present and holds undefined.                              *)
(***************************************************************************)
EXTENDS Naturals, Sequences, FiniteSets

VARIABLES store, name, panel, reads, writes, last

vars == <<store, name, panel, reads, writes, last>>

---------------------------------------------------------------------------
(* Bounds of the model. *)

\* longest side-subset array useCustomSides hands to a handler
MaxSides == 2

\* longest side-subset array of each family when "Reset all" is chosen
MaxResetAllSides == 1

---------------------------------------------------------------------------
(* JavaScript values. *)

Absent == "undefined"

Undef == [t |-> "undefined"]

Str(s) == [t |-> "string", v |-> s]

Obj(m) == [t |-> "object", v |-> m]

Arr(q) == [t |-> "array", v |-> q]

\* the exception a property read of undefined raises
TypeError == [t |-> "TypeError"]

EmptyMap == [k \in {} |-> Absent]

\* JavaScript truthiness: undefined and '' are falsy, objects and arrays truthy
Truthy(x) == x.t \in {"object", "array"} \/ (x.t = "string" /\ x.v # "")

\* m[k] on an object's own keys: a missing key reads as undefined
Get(m, k) == IF k \in DOMAIN m THEN m[k] ELSE Absent

\* m[k] = v
Put(m, k, v) == [x \in (DOMAIN m) \cup {k} |-> IF x = k THEN v ELSE m[x]]

\* values.k where values is an object or a string primitive
Prop(x, k) == IF x.t = "object" THEN Get(x.v, k) ELSE Absent

\* Object.keys( x ).length
KeyCount(x) == IF x.t = "object" THEN Cardinality(DOMAIN x.v) ELSE 0

Sides == {"top", "right", "bottom", "left"}

AXIAL_SIDES == {"horizontal", "vertical"}

FourSides(s) == [k \in Sides |-> s]

---------------------------------------------------------------------------
(* The transforms. *)

\* one iteration of the forEach body of filterValuesBySides
FilterSide(acc, values, side) ==
    LET a1 == IF side = "vertical"
              THEN Put(Put(acc, "top", Prop(values, "top")),
                       "bottom", Prop(values, "bottom"))
              ELSE acc
        a2 == IF side = "horizontal"
              THEN Put(Put(a1, "left", Prop(values, "left")),
                       "right", Prop(values, "right"))
              ELSE a1
    IN  Put(a2, side, Prop(values, side))

RECURSIVE FilterEach(_, _, _)
FilterEach(acc, values, q) ==
    IF q = <<>> THEN acc
    ELSE FilterEach(FilterSide(acc, values, Head(q)), values, Tail(q))

\* values.top on undefined raises as soon as the loop body runs once
filterValuesBySides(values, sides) ==
    IF ~Truthy(sides) THEN values
    ELSE IF values.t = "undefined" /\ sides.v # <<>> THEN TypeError
    ELSE Obj(FilterEach(EmptyMap, values, sides.v))

\* the loop body of filterGapValuesBySides, had it ended with the
\* filteredValues[ side ] = values[ side ] of filterValuesBySides
FilterGapSide_copiesSide(acc, values, side) ==
    LET a1 == IF side = "horizontal"
              THEN Put(acc, "column", Prop(values, "left"))
              ELSE acc
        a2 == IF side = "vertical"
              THEN Put(a1, "row", Prop(values, "top"))
              ELSE a1
    IN  Put(a2, side, Prop(values, side))

\* one iteration of the forEach body of filterGapValuesBySides
FilterGapSide(acc, values, side) ==
    LET a1 == IF side = "horizontal"
              THEN Put(acc, "column", Prop(values, "left"))
              ELSE acc
    IN  IF side = "vertical"
        THEN Put(a1, "row", Prop(values, "top"))
        ELSE a1

RECURSIVE FilterGapEach(_, _, _)
FilterGapEach(acc, values, q) ==
    IF q = <<>> THEN acc
    ELSE FilterGapEach(FilterGapSide(acc, values, Head(q)), values, Tail(q))

\* filterGapValuesBySides with the two axes taken from the wrong edges
filterGapValuesBySides_swapped(values, sides) ==
    IF ~Truthy(sides)
    THEN Obj([k \in {"row", "column"} |->
                 IF k = "row" THEN Prop(values, "left") ELSE Prop(values, "top")])
    ELSE Obj(FilterGapEach(EmptyMap, values, sides.v))

\* values?.top never raises
filterGapValuesBySides(values, sides) ==
    IF ~Truthy(sides)
    THEN Obj([k \in {"row", "column"} |->
                 IF k = "row" THEN Prop(values, "top") ELSE Prop(values, "left")])
    ELSE Obj(FilterGapEach(EmptyMap, values, sides.v))

\* splitStyleValue widening every value to the four edges, as
\* splitGapStyleValue does
splitStyleValue_widens(value) ==
    IF Truthy(value) /\ value.t = "string"
    THEN Obj(FourSides(value.v))
    ELSE Obj([k \in Sides |-> Prop(value, k)])

splitStyleValue(value) ==
    IF Truthy(value) /\ value.t = "string"
    THEN Obj(FourSides(value.v))
    ELSE value

splitGapStyleValue(value) ==
    IF Truthy(value) /\ value.t = "string"
    THEN Obj(FourSides(value.v))
    ELSE Obj([k \in Sides |->
                 IF k \in {"top", "bottom"} THEN Prop(value, "row")
                 ELSE Prop(value, "column")])

---------------------------------------------------------------------------
(* The collaborators: the style store, the settings and the block supports. *)

Entities == {"core/group", "core/button"}

PADDING == "padding"

MARGIN == "margin"

GAP == "--wp--style--block-gap"

DimensionKeys == {PADDING, MARGIN, GAP}

BorderKeys == {"border.width", "border.style", "border.color", "border.radius"}

StoreKeys == DimensionKeys \cup BorderKeys

\* getStyle( name, prop )
getStyle(st, n, prop) == st[n][prop]

\* setStyle( name, prop, value )
setStyle(st, n, prop, value) == [st EXCEPT ![n][prop] = value]

\* context.supports of the two block types the panel is opened on
supports(n) ==
    IF n = "core/group" THEN {PADDING, MARGIN, GAP} ELSE {PADDING, GAP}

\* useSetting( path, name )
useSetting(path, n) ==
    IF n = "core/group" THEN TRUE ELSE path # "spacing.blockGap"

useHasPadding(n) == useSetting("spacing.customPadding", n) /\ PADDING \in supports(n)

useHasMargin(n) == useSetting("spacing.customMargin", n) /\ MARGIN \in supports(n)

useHasGap(n) == useSetting("spacing.blockGap", n) /\ GAP \in supports(n)

useHasDimensionsPanel(n) == useHasPadding(n) \/ useHasMargin(n) \/ useHasGap(n)

---------------------------------------------------------------------------
(* One render of DimensionsPanel: what it reads and what it hands on. *)

\* the store keys the body of DimensionsPanel passes to getStyle
RenderReads == {PADDING, MARGIN, GAP}

Render(st, n) ==
    [ showPaddingControl |-> useHasPadding(n),
      showMarginControl  |-> useHasMargin(n),
      showGapControl     |-> useHasGap(n),
      paddingValues      |-> splitStyleValue(getStyle(st, n, PADDING)),
      marginValues       |-> splitStyleValue(getStyle(st, n, MARGIN)),
      gapValues          |-> splitGapStyleValue(getStyle(st, n, GAP)) ]

\* !! values && Object.keys( values ).length : 0 stands for both falsy results
hasPaddingValue(p) == IF Truthy(p.paddingValues) THEN KeyCount(p.paddingValues) ELSE 0

hasMarginValue(p) == IF Truthy(p.marginValues) THEN KeyCount(p.marginValues) ELSE 0

hasGapValue(p) == IF Truthy(p.gapValues) THEN KeyCount(p.gapValues) ELSE 0

---------------------------------------------------------------------------
(* Inputs. *)

Scalars == {"4px", "8px"}

SideEntries == Sides \cup AXIAL_SIDES

RECURSIVE SeqsUpTo(_, _)
SeqsUpTo(S, n) ==
    IF n = 0 THEN {<<>>}
    ELSE LET shorter == SeqsUpTo(S, n - 1)
         IN  shorter \cup {Append(q, x) : q \in shorter, x \in S}

\* what useCustomSides returns: undefined, or an array of entries
SideSubsets == {Undef} \cup {Arr(q) : q \in SeqsUpTo(SideEntries, MaxSides)}

\* what BoxControl passes to onChange: the mapping with every edge undefined,
\* the uniform split, and the uniform split with one edge edited
EditedValues ==
    { Obj(FourSides(Absent)),
      Obj(FourSides("4px")),
      Obj([FourSides("4px") EXCEPT !["right"] = "8px"]),
      Obj([FourSides("4px") EXCEPT !["top"] = "8px"]),
      Obj([FourSides("4px") EXCEPT !["left"] = Absent]) }

\* values a theme or an earlier session left in the store
StoredBoxValues ==
    { Undef, Str("4px"), Str(""),
      Obj([FourSides("4px") EXCEPT !["right"] = "8px"]),
      Obj([k \in {"top"} |-> "4px"]) }

StoredGapValues ==
    { Undef, Str("8px"), Obj([k \in {"row"} |-> "4px"]) }
    \cup {Obj([k \in {"row", "column"} |-> IF k = "row" THEN r ELSE c]) :
            r \in Scalars \cup {Absent}, c \in Scalars \cup {Absent}}

\* the side subsets of the three families when "Reset all" is chosen
ResetAllSideSubsets ==
    {Undef} \cup {Arr(q) : q \in SeqsUpTo(SideEntries, MaxResetAllSides)}

NoCall == [op |-> "none"]

---------------------------------------------------------------------------
(* The dimensions panel as a state machine.  A behaviour is one edit cycle *)
(* of a panel instance: Init draws the stored values and renders, one      *)
(* handler runs, and the store change renders the panel again.  What a     *)
(* handler writes depends on its arguments and on name alone.              *)

Init ==
    /\ name \in Entities
    /\ useHasDimensionsPanel(name)
    /\ \E b \in StoredBoxValues, g \in StoredGapValues :
          store = [n \in Entities |->
                     [k \in StoreKeys |->
                        IF k \in {PADDING, MARGIN} THEN b
                        ELSE IF k = GAP THEN g
                        ELSE Undef]]
    /\ panel = Render(store, name)
    /\ reads = RenderReads
    /\ writes = <<>>
    /\ last = NoCall

\* the panel is rendered and waits for an event
Idle == last = NoCall

\* the store after a handler's setStyle calls, made in order
RECURSIVE ApplyCalls(_, _)
ApplyCalls(st, calls) ==
    IF calls = <<>> THEN st
    ELSE ApplyCalls(setStyle(st, Head(calls)[1], Head(calls)[2], Head(calls)[3]),
                    Tail(calls))

\* a handler runs: its setStyle calls, then the render the store change causes
Handle(op, values, sides, calls) ==
    /\ store' = ApplyCalls(store, calls)
    /\ writes' = calls
    /\ last' = [op |-> op, values |-> values, sides |-> sides]
    /\ panel' = Render(store', name)
    /\ reads' = RenderReads
    /\ UNCHANGED name

\* the handlers, each as the sequence of setStyle calls it makes
setPaddingValues(newPaddingValues, paddingSides) ==
    << <<name, PADDING, filterValuesBySides(newPaddingValues, paddingSides)>> >>

resetPaddingValue(paddingSides) == setPaddingValues(Obj(EmptyMap), paddingSides)

\* setMarginValues left writing to the key of the handler it was copied from
setMarginValues_paddingKey(newMarginValues, marginSides) ==
    << <<name, PADDING, filterValuesBySides(newMarginValues, marginSides)>> >>

setMarginValues(newMarginValues, marginSides) ==
    << <<name, MARGIN, filterValuesBySides(newMarginValues, marginSides)>> >>

resetMarginValue(marginSides) == setMarginValues(Obj(EmptyMap), marginSides)

setGapValues(newGapValues, gapSides) ==
    << <<name, GAP, filterGapValuesBySides(newGapValues, gapSides)>> >>

resetGapValue(gapSides) == setGapValues(Obj(EmptyMap), gapSides)

resetAll(paddingSides, marginSides, gapSides) ==
    resetPaddingValue(paddingSides) \o resetMarginValue(marginSides)
        \o resetGapValue(gapSides)

\* BoxControl onChange and ToolsPanelItem onDeselect exist only while the
\* item is rendered
PaddingChange ==
    /\ Idle
    /\ panel.showPaddingControl
    /\ \E v \in EditedValues, s \in SideSubsets :
          Handle("setPaddingValues", v, s, setPaddingValues(v, s))

PaddingDeselect ==
    /\ Idle
    /\ panel.showPaddingControl
    /\ \E s \in SideSubsets :
          Handle("resetPaddingValue", Obj(EmptyMap), s, resetPaddingValue(s))

MarginChange ==
    /\ Idle
    /\ panel.showMarginControl
    /\ \E v \in EditedValues, s \in SideSubsets :
          Handle("setMarginValues", v, s, setMarginValues(v, s))

MarginDeselect ==
    /\ Idle
    /\ panel.showMarginControl
    /\ \E s \in SideSubsets :
          Handle("resetMarginValue", Obj(EmptyMap), s, resetMarginValue(s))

\* the edited mapping may be the one BoxControl was given, unedited
GapChange ==
    /\ Idle
    /\ panel.showGapControl
    /\ \E v \in EditedValues \cup {panel.gapValues}, s \in SideSubsets :
          Handle("setGapValues", v, s, setGapValues(v, s))

GapDeselect ==
    /\ Idle
    /\ panel.showGapControl
    /\ \E s \in SideSubsets :
          Handle("resetGapValue", Obj(EmptyMap), s, resetGapValue(s))

\* the ToolsPanel menu's "Reset all", there whichever items are rendered
ResetAll ==
    /\ Idle
    /\ \E ps \in ResetAllSideSubsets, ms \in ResetAllSideSubsets,
          gs \in ResetAllSideSubsets :
          Handle("resetAll", Obj(EmptyMap), <<ps, ms, gs>>, resetAll(ps, ms, gs))

Next ==
    \/ PaddingChange
    \/ PaddingDeselect
    \/ MarginChange
    \/ MarginDeselect
    \/ GapChange
    \/ GapDeselect

Spec == Init /\ [][Next]_vars

NextAll ==
    \/ Next
    \/ ResetAll

SpecAll == Init /\ [][NextAll]_vars

---------------------------------------------------------------------------
(* The border panel. *)

\* getSupportedGlobalStylesPanels( name )
getSupportedGlobalStylesPanels(n) ==
    IF n = "core/group"
    THEN {"borderColor", "borderRadius", "borderStyle", "borderWidth"}
    ELSE {"borderColor", "borderStyle", "borderWidth"}

useHasBorderColorControl(n) ==
    useSetting("border.color", n) /\ "borderColor" \in getSupportedGlobalStylesPanels(n)

useHasBorderRadiusControl(n) ==
    useSetting("border.radius", n) /\ "borderRadius" \in getSupportedGlobalStylesPanels(n)

useHasBorderStyleControl(n) ==
    useSetting("border.style", n) /\ "borderStyle" \in getSupportedGlobalStylesPanels(n)

useHasBorderWidthControl(n) ==
    useSetting("border.width", n) /\ "borderWidth" \in getSupportedGlobalStylesPanels(n)

\* one render of BorderPanel: the values its useStyle calls return
BorderPanel(st, n) ==
    [ showBorderWidth    |-> useHasBorderWidthControl(n),
      showBorderStyle    |-> useHasBorderStyleControl(n),
      showBorderColor    |-> useHasBorderColorControl(n),
      showBorderRadius   |-> useHasBorderRadiusControl(n),
      borderWidthValue   |-> getStyle(st, n, "border.width"),
      borderStyle        |-> getStyle(st, n, "border.style"),
      borderColor        |-> getStyle(st, n, "border.color"),
      borderRadiusValues |-> getStyle(st, n, "border.radius") ]

\* value || undefined
OrUndefined(value) == IF Truthy(value) THEN value ELSE Undef

\* handleOnChange( setStyle )( value ), setStyle being the setter of key
handleOnChange(key, value) == << <<name, key, OrUndefined(value)>> >>

\* handleOnChangeWithStyle without its ! borderStyle test
handleOnChangeWithStyle_anyStyle(key, value) ==
    (IF Truthy(value)
     THEN << <<name, "border.style", Str("solid")>> >>
     ELSE <<>>)
    \o << <<name, key, OrUndefined(value)>> >>

\* handleOnChangeWithStyle( setStyle )( value ), borderStyle being the value
\* the last render read
handleOnChangeWithStyle(key, value) ==
    (IF Truthy(value) /\ ~Truthy(panel.borderStyle)
     THEN << <<name, "border.style", Str("solid")>> >>
     ELSE <<>>)
    \o << <<name, key, OrUndefined(value)>> >>

\* createResetCallback( setStyle )()
createResetCallback(key) == << <<name, key, Undef>> >>

\* resetAll of BorderPanel
borderResetAll ==
    << <<name, "border.color", Undef>>, <<name, "border.radius", Undef>>,
       <<name, "border.style", Undef>>, <<name, "border.width", Undef>> >>

BorderWidths == {Undef, Str(""), Str("1px"), Str("2px")}

BorderColors == {Undef, Str("#000")}

BorderStyles == {Undef, Str("solid"), Str("dashed")}

BorderRadii == {Undef, Str("4px")}

InitBorder ==
    /\ name \in Entities
    /\ \E w \in {Undef, Str("1px")}, st \in BorderStyles, c \in BorderColors :
          store = [n \in Entities |->
                     [k \in StoreKeys |->
                        IF k = "border.width" THEN w
                        ELSE IF k = "border.style" THEN st
                        ELSE IF k = "border.color" THEN c
                        ELSE Undef]]
    /\ panel = BorderPanel(store, name)
    /\ reads = BorderKeys
    /\ writes = <<>>
    /\ last = NoCall

\* a handler of the border panel runs, then the panel renders again
BorderHandle(op, key, value, calls) ==
    /\ store' = ApplyCalls(store, calls)
    /\ writes' = calls
    /\ last' = [op |-> op, key |-> key, values |-> value,
                borderStyle |-> panel.borderStyle]
    /\ panel' = BorderPanel(store', name)
    /\ reads' = BorderKeys
    /\ UNCHANGED name

BorderWidthChange ==
    /\ panel.showBorderWidth
    /\ \E v \in BorderWidths :
          BorderHandle("handleOnChangeWithStyle", "border.width", v,
                       handleOnChangeWithStyle("border.width", v))

BorderColorChange ==
    /\ panel.showBorderColor
    /\ \E v \in BorderColors :
          BorderHandle("handleOnChangeWithStyle", "border.color", v,
                       handleOnChangeWithStyle("border.color", v))

BorderStyleChange ==
    /\ panel.showBorderStyle
    /\ \E v \in BorderStyles :
          BorderHandle("handleOnChange", "border.style", v,
                       handleOnChange("border.style", v))

BorderRadiusChange ==
    /\ panel.showBorderRadius
    /\ \E v \in BorderRadii :
          BorderHandle("handleOnChange", "border.radius", v,
                       handleOnChange("border.radius", v))

BorderDeselect ==
    \E k \in BorderKeys :
        /\ \/ k = "border.width" /\ panel.showBorderWidth
           \/ k = "border.style" /\ panel.showBorderStyle
           \/ k = "border.color" /\ panel.showBorderColor
           \/ k = "border.radius" /\ panel.showBorderRadius
        /\ BorderHandle("createResetCallback", k, Undef, createResetCallback(k))

\* the ToolsPanel menu's "Reset all" is there whichever items are rendered
BorderResetAll ==
    BorderHandle("resetAll", "border", Undef, borderResetAll)

NextBorder ==
    \/ BorderWidthChange
    \/ BorderColorChange
    \/ BorderStyleChange
    \/ BorderRadiusChange
    \/ BorderDeselect
    \/ BorderResetAll

SpecBorder == InitBorder /\ [][NextBorder]_vars

---------------------------------------------------------------------------
(* The four transforms called on their own, on every shape of argument.    *)

Transforms ==
    {"splitStyleValue", "splitGapStyleValue",
     "filterValuesBySides", "filterGapValuesBySides"}

\* absent, empty, partial and complete values
AnyValues ==
    { Undef, Str("4px"), Str(""), Obj(EmptyMap),
      Obj([k \in {"top"} |-> "4px"]),
      Obj([k \in {"row"} |-> "4px"]),
      Obj([k \in {"row", "column"} |-> "8px"]),
      Obj(FourSides(Absent)),
      Obj([FourSides("4px") EXCEPT !["right"] = "8px"]) }

\* absent, or an array that may hold an entry that names no side
AnySideSubsets ==
    {Undef} \cup {Arr(q) : q \in SeqsUpTo(SideEntries \cup {"diagonal"}, MaxSides)}

InitCalls ==
    /\ name = "core/group"
    /\ store = [n \in Entities |-> [k \in StoreKeys |-> Undef]]
    /\ panel = Render(store, name)
    /\ reads = RenderReads
    /\ writes = <<>>
    /\ last = NoCall

\* what a call leaves behind: its arguments and what it returned or raised
Returned(op, values, sides, result) ==
    [op |-> op, values |-> values, sides |-> sides, result |-> result]

CallSplitStyleValue ==
    /\ \E v \in AnyValues :
          last' = Returned("splitStyleValue", v, Undef, splitStyleValue(v))
    /\ UNCHANGED <<store, name, panel, reads, writes>>

CallSplitGapStyleValue ==
    /\ \E v \in AnyValues :
          last' = Returned("splitGapStyleValue", v, Undef, splitGapStyleValue(v))
    /\ UNCHANGED <<store, name, panel, reads, writes>>

CallFilterValuesBySides ==
    /\ \E v \in AnyValues, s \in AnySideSubsets :
          last' = Returned("filterValuesBySides", v, s, filterValuesBySides(v, s))
    /\ UNCHANGED <<store, name, panel, reads, writes>>

CallFilterGapValuesBySides ==
    /\ \E v \in AnyValues, s \in AnySideSubsets :
          last' = Returned("filterGapValuesBySides", v, s,
                           filterGapValuesBySides(v, s))
    /\ UNCHANGED <<store, name, panel, reads, writes>>

NextCalls ==
    \/ CallSplitStyleValue
    \/ CallSplitGapStyleValue
    \/ CallFilterValuesBySides
    \/ CallFilterGapValuesBySides

SpecCalls == InitCalls /\ [][NextCalls]_vars

---------------------------------------------------------------------------
(* Properties. *)

\* the elements of an array
Elements(q) == {q[i] : i \in 1..Len(q)}

\* the edges a side subset names, directly or through an axis
NamedEdges(q) ==
    {e \in Sides :
        \/ e \in Elements(q)
        \/ e \in {"top", "bottom"} /\ "vertical" \in Elements(q)
        \/ e \in {"left", "right"} /\ "horizontal" \in Elements(q)}

\* every edge of a mapping reads as undefined
AllEdgesAbsent(x) == \A e \in Sides : Prop(x, e) = Absent

\* C1: with a side subset present, what setPaddingValues / setMarginValues
\* write has exactly the edges the subset names as its keys, each holding
\* the edited value of that edge, and no other key
C1_WritesExactlyNamedEdges ==
    (last.op \in {"setPaddingValues", "setMarginValues"} /\ last.sides.t = "array")
    => LET w == writes[1][3]
       IN  /\ w.t = "object"
           /\ DOMAIN w.v = NamedEdges(last.sides.v)
           /\ \A k \in DOMAIN w.v : w.v[k] = Prop(last.values, k)
           /\ store[name][writes[1][2]] = w

C3_ResetThenHasNoValue ==
    /\ last.op = "resetPaddingValue" => hasPaddingValue(panel) = 0
    /\ last.op = "resetMarginValue" => hasMarginValue(panel) = 0
    /\ last.op = "resetGapValue" => hasGapValue(panel) = 0

\* the side subset the gap handlers were last given, absent before any call
CurrentGapSides ==
    IF last.op \in {"setGapValues", "resetGapValue"} THEN last.sides ELSE Undef

\* C5: hasValue() is falsy exactly when every edge of the split mapping is
\* absent (padding, margin), or when every axis of the gap mapping filtered
\* by the current side subset is absent
C5_HasValueIffSomethingSet ==
    /\ (hasPaddingValue(panel) = 0) <=> AllEdgesAbsent(panel.paddingValues)
    /\ (hasMarginValue(panel) = 0) <=> AllEdgesAbsent(panel.marginValues)
    /\ LET axes == filterGapValuesBySides(panel.gapValues, CurrentGapSides)
       IN  (hasGapValue(panel) = 0)
              <=> (\A a \in {"row", "column"} : Prop(axes, a) = Absent)

\* a stored gap value with both axes as keys
IsPerAxis(x) == x.t = "object" /\ DOMAIN x.v = {"row", "column"}

\* C6: a stored per-axis gap value splits to top = bottom = row and
\* left = right = column; with no side subset setGapValues writes
\* { row: edited.top, column: edited.left }; so writing the split value back
\* unedited leaves the stored value as it was
C6_GapRoundTrip ==
    /\ [](IsPerAxis(store[name][GAP])
            => panel.gapValues =
                 Obj([e \in Sides |->
                        IF e \in {"top", "bottom"} THEN store[name][GAP].v["row"]
                        ELSE store[name][GAP].v["column"]]))
    /\ []((last.op = "setGapValues" /\ last.sides = Undef)
            => writes =
                 << <<name, GAP,
                      Obj([a \in {"row", "column"} |->
                             IF a = "row" THEN last.values.v["top"]
                             ELSE last.values.v["left"]])>> >>)
    /\ [][(/\ last'.op = "setGapValues"
           /\ last'.sides = Undef
           /\ last'.values = panel.gapValues
           /\ IsPerAxis(store[name][GAP]))
          => store'[name][GAP] = store[name][GAP]]_vars

\* the split of { row: 4px, column: 8px } was written back unedited
C6_Witness ==
    /\ last.op = "setGapValues"
    /\ last.sides = Undef
    /\ last.values = Obj([e \in Sides |->
                            IF e \in {"top", "bottom"} THEN "4px" ELSE "8px"])
    /\ store[name][GAP] =
          Obj([a \in {"row", "column"} |-> IF a = "row" THEN "4px" ELSE "8px"])

\* C7: with a side subset present, what setGapValues writes has a row key
\* (edited.top) exactly when the subset holds vertical, a column key
\* (edited.left) exactly when it holds horizontal, and no other key
C7_GapKeysFollowAxes ==
    (last.op = "setGapValues" /\ last.sides.t = "array")
    => LET w == writes[1][3]
           q == Elements(last.sides.v)
       IN  /\ Len(writes) = 1
           /\ w.t = "object"
           /\ DOMAIN w.v = {a \in {"row", "column"} :
                               \/ a = "row" /\ "vertical" \in q
                               \/ a = "column" /\ "horizontal" \in q}
           /\ "row" \in DOMAIN w.v => w.v["row"] = last.values.v["top"]
           /\ "column" \in DOMAIN w.v => w.v["column"] = last.values.v["left"]
           /\ store[name][GAP] = w

\* the split of a uniform gap was written under [ horizontal ]
C7_Witness ==
    /\ last.op = "setGapValues"
    /\ last.sides = Arr(<<"horizontal">>)
    /\ last.values = Obj(FourSides("8px"))
    /\ writes = << <<name, GAP, Obj([a \in {"column"} |-> "8px"])>> >>

\* whether the family's controls are rendered
Shown(f) ==
    IF f = PADDING THEN panel.showPaddingControl
    ELSE IF f = MARGIN THEN panel.showMarginControl
    ELSE panel.showGapControl

\* C8: a family that is not visible is neither read from nor written to
\* the store
C8_HiddenFamilySkipped ==
    \A f \in DimensionKeys :
        ~Shown(f) => /\ f \notin reads
                     /\ \A i \in 1..Len(writes) : writes[i][2] # f

\* C9: no transform raises, whatever its arguments
C9_TransformsTotal == last.op \in Transforms => last.result # TypeError

PerFamilyHandlers ==
    {"setPaddingValues", "resetPaddingValue", "setMarginValues",
     "resetMarginValue", "setGapValues", "resetGapValue"}

FamilyKey(op) ==
    IF op \in {"setPaddingValues", "resetPaddingValue"} THEN PADDING
    ELSE IF op \in {"setMarginValues", "resetMarginValue"} THEN MARGIN
    ELSE GAP

\* C10: an edit or a reset of one family makes one store write, to that
\* family's key of the panel's entity; every other key of the store keeps
\* its value
C10_OneWriteToOwnKey ==
    [][last'.op \in PerFamilyHandlers
       => LET k == FamilyKey(last'.op)
          IN  /\ Len(writes') = 1
              /\ writes'[1][1] = name
              /\ writes'[1][2] = k
              /\ store'[name][k] = writes'[1][3]
              /\ \A n \in Entities, j \in StoreKeys :
                    (n # name \/ j # k) => store'[n][j] = store[n][j]]_vars

\* margin was edited beside a stored padding, a stored gap and the other
\* entity's stored margin
C10_Witness ==
    /\ last.op = "setMarginValues"
    /\ name = "core/group"
    /\ store[name][MARGIN] = Obj(FourSides(Absent))
    /\ store[name][PADDING] = Str("4px")
    /\ store[name][GAP] = Str("8px")
    /\ store["core/button"][MARGIN] = Str("4px")

\* C4: an edit of border width or colour first writes style solid when the
\* new value is not absent (undefined or '') and no style is set, and makes
\* no style write otherwise
C4_StyleDefaultsToSolid ==
    last.op = "handleOnChangeWithStyle"
    => LET v == last.values
           k == last.key
           absent == v = Undef \/ v = Str("")
       IN  IF ~absent /\ last.borderStyle = Undef
           THEN /\ writes = << <<name, "border.style", Str("solid")>>,
                               <<name, k, v>> >>
                /\ store[name]["border.style"] = Str("solid")
                /\ store[name][k] = v
           ELSE /\ writes = << <<name, k, IF absent THEN Undef ELSE v>> >>
                /\ store[name]["border.style"] = last.borderStyle

\* a width was set while no style was
C4_Witness ==
    /\ last.op = "handleOnChangeWithStyle"
    /\ last.key = "border.width"
    /\ last.values = Str("1px")
    /\ last.borderStyle = Undef
    /\ store[name]["border.style"] = Str("solid")

=============================================================================
